---- MODULE Spec2Model ----
(***************************************************************************)
(* Beam search decoding (src/beam_search.py): the Hypothesis class, its    *)
(* two scoring functions, sort_hyps and the step loop of run_beam_search.  *)
(*                                                                         *)
(* Numbers.  Log-probabilities are integers counting tenths (-8 is -0.8)   *)
(* and are never positive; attention weights are integers counting halves  *)
(* (a distribution sums to 2).  The sentence-start weights are float32, as *)
(* in the numpy array that holds them: every operation on them rounds to   *)
(* 24 significant bits, ties to even.  A score is                          *)
(*     -big * 10^6  +  (num/den - (hi * 2^30 + lo) / 2^32) / 10,           *)
(* or NaN: num/den collects the terms that are ratios of small integers,   *)
(* hi and lo minus the dot product of the float32 weights with the         *)
(* log-probabilities.  The operations on float64 are taken as exact: their *)
(* roundings, of one part in 2^53, are not modelled.  The                  *)
(* comparison of two scores is the comparison Python makes on floats:      *)
(* every comparison with NaN is false.                                     *)
(***************************************************************************)
EXTENDS Integers, Sequences, FiniteSets, TLC

(***************************************************************************)
(* Vocabulary ids: vocab.word2id and the data module are collaborators of  *)
(* beam_search.py.  Ids below N_FREE_TOKENS are the reserved ones.         *)
(***************************************************************************)
UNK_ID == 0
PAD_ID == 1
START_ID == 2
STOP_ID == 3
N_FREE_TOKENS == 4
PERIOD_ID == 4
THE_ID == 5
HE_ID == 6
WORD_ID == 7

stop_token_id == STOP_ID
start_sent_ids == {START_ID, PERIOD_ID}
stopword_ids == {THE_ID}
pronoun_ids == {HE_ID}

\* The pronoun penalty .8 of _smart_avg_log_prob, in tenths.
PRONOUN_PENALTY == 8
\* The n of repeated_n_gram_loss (disallowed_n=3).
DISALLOWED_N == 3
\* The lookahead i + 5 of the sentence-start window.
WINDOW_END == 5

(***************************************************************************)
(* Arithmetic helpers                                                      *)
(***************************************************************************)
Min2(a, b) == IF a <= b THEN a ELSE b

RECURSIVE SumSeq(_)
SumSeq(s) == IF s = <<>> THEN 0 ELSE Head(s) + SumSeq(Tail(s))

\* A function on 1..n as a sequence value, its elements computed once.
AsSeq(f) == SubSeq(f, 1, Len(f))

Reverse(s) == AsSeq([i \in 1..Len(s) |-> s[Len(s) + 1 - i]])

(***************************************************************************)
(* float32: a value is a natural number counting units of 2^-28 (weights   *)
(* and their sum) or of 2^-30 (normalised weights).                        *)
(***************************************************************************)
\* The power of two p >= q for which v \div p has at most 24 bits.
RECURSIVE Ulp24(_, _)
Ulp24(v, q) == IF v \div q < 2^24 THEN q ELSE Ulp24(v, 2 * q)

\* q or q + 1: the quotient q with remainder r of a division by b, rounded to
\* the nearest integer, ties to even.
RoundHalfEven(q, r, b) ==
  IF 2 * r > b \/ (2 * r = b /\ q % 2 = 1) THEN q + 1 ELSE q

\* v rounded to a multiple of p.
RoundTo(v, p) == RoundHalfEven(v \div p, v % p, p) * p

\* v rounded to 24 significant bits, ties to even.
Round24(v) == RoundTo(v, Ulp24(v, 1))

\* v = m * 2^e with 24 bits in m, from m and e with that product: the
\* mantissa and the exponent of a positive float32 value.
RECURSIVE Frexp(_, _)
Frexp(m, e) ==
  IF m >= 2^24 THEN Frexp(m \div 2, e + 1)
  ELSE IF m < 2^23 THEN Frexp(2 * m, e - 1)
  ELSE [m |-> m, e |-> e]

\* Long division by b < 2^24, at most 7 bits at a time: from the quotient q
\* so far and the remainder r < b, the quotient with bits more bits and its
\* remainder.
RECURSIVE LongDiv(_, _, _, _)
LongDiv(q, r, b, bits) ==
  IF bits = 0 THEN [q |-> q, r |-> r]
  ELSE LET c == Min2(bits, 7)
       IN  LongDiv(q * 2^c + (r * 2^c) \div b, (r * 2^c) % b, b, bits - c)

\* The quotient d.q with remainder d.r of a division by b, rounded.
Rounded(d, b) == RoundHalfEven(d.q, d.r, b)

\* x / y for mantissas and exponents x and y, counted in units of 2^-unit:
\* the quotient of the mantissas is taken to bits bits after its leading
\* one, 24 in all, and rounded, ties to even.
DivBits(x, y, unit, bits) ==
  Rounded(LongDiv(x.m \div y.m, x.m % y.m, y.m, bits), y.m)
    * 2^(unit + x.e - y.e - bits)

DivFrexp(x, y, unit) == DivBits(x, y, unit, IF x.m >= y.m THEN 23 ELSE 24)

\* a / b in float32 for float32 values a, b > 0, counted in units of 2^-unit.
Div32(a, b, unit) == DivFrexp(Frexp(a, 0), Frexp(b, 0), unit)

\* a + b in float32.
Add32(a, b) == Round24(a + b)

\* res + w[i] + w[i+1] + ..., one float32 addition after the other.
RECURSIVE SumFrom32(_, _, _)
SumFrom32(w, i, res) ==
  IF i > Len(w) THEN res ELSE SumFrom32(w, i + 1, Add32(res, w[i]))

\* res + w[i] + w[i+8] + ... up to position last.
RECURSIVE Lane32(_, _, _, _)
Lane32(w, i, last, res) ==
  IF i > last THEN res ELSE Lane32(w, i + 8, last, Add32(res, w[i]))

\* The 8 partial sums over the first full positions of w, a multiple of 8.
Lanes(w, full) == AsSeq([k \in 1..8 |-> Lane32(w, k + 8, full, w[k])])

\* ((r[1] + r[2]) + (r[3] + r[4])) + ((r[5] + r[6]) + (r[7] + r[8])), written
\* for r[first] to r[last].
RECURSIVE Pairwise(_, _, _)
Pairwise(r, first, last) ==
  IF first = last THEN r[first]
  ELSE Add32(Pairwise(r, first, (first + last) \div 2),
             Pairwise(r, (first + last) \div 2 + 1, last))

\* ndarray.sum() of a float32 array of up to 128 elements: numpy adds fewer
\* than 8 elements one after the other, and otherwise keeps 8 partial sums,
\* adds them pairwise and then adds the n % 8 last elements.
Sum32(w) ==
  IF Len(w) < 8 THEN SumFrom32(w, 1, 0)
  ELSE SumFrom32(w, Len(w) - (Len(w) % 8) + 1,
                 Pairwise(Lanes(w, Len(w) - (Len(w) % 8)), 1, 8))

(***************************************************************************)
(* Scores                                                                  *)
(***************************************************************************)
NaN == [nan |-> TRUE, big |-> 0, num |-> 0, den |-> 1, hi |-> 0, lo |-> 0]
NumDot(big, num, den, hi, lo) ==
  [nan |-> FALSE, big |-> big, num |-> num, den |-> den, hi |-> hi, lo |-> lo]
Num(big, num, den) == NumDot(big, num, den, 0, 0)
\* -10 ** 6
SENTINEL == Num(1, 0, 1)

\* What lo * m carries into the multiples of 2^30: lo < 2^30 is taken 6 bits
\* at a time (k times, c the carry so far) so that no product overflows.
RECURSIVE MulCarry(_, _, _, _)
MulCarry(lo, m, c, k) ==
  IF k = 0 THEN c
  ELSE MulCarry(lo \div 64, m, ((lo % 64) * m + c) \div 64, k - 1)

\* x < y for two scores of the same big:
\*   (y.hi * 2^30 + y.lo - x.hi * 2^30 - x.lo) / 2^32 < y.num/y.den - x.num/x.den.
ValueLess(x, y) ==
  LET borrow == IF y.lo < x.lo THEN 1 ELSE 0
      dhi == y.hi - x.hi - borrow
      dlo == y.lo - x.lo + borrow * 2^30
      m == x.den * y.den
      n == 4 * (y.num * x.den - x.num * y.den)
  IN  dhi * m + MulCarry(dlo, m, 0, 5) < n

\* x < y on floats.
ScoreLess(x, y) ==
  /\ ~x.nan
  /\ ~y.nan
  /\ IF x.big # y.big THEN x.big > y.big
     ELSE ValueLess(x, y)

\* x == y on floats.
ScoreEq(x, y) ==
  /\ ~x.nan
  /\ ~y.nan
  /\ ~ScoreLess(x, y)
  /\ ~ScoreLess(y, x)

(***************************************************************************)
(* Hypothesis                                                              *)
(***************************************************************************)
Hypothesis(tokens, log_probs, state, attn_dists, p_gens, coverage) ==
  [tokens |-> tokens, log_probs |-> log_probs, state |-> state,
   attn_dists |-> attn_dists, p_gens |-> p_gens, coverage |-> coverage]

extend(h, token, log_prob, state, attn_dist, p_gen, coverage) ==
  Hypothesis(h.tokens \o <<token>>,
             h.log_probs \o <<log_prob>>,
             state,
             h.attn_dists \o <<attn_dist>>,
             h.p_gens \o <<p_gen>>,
             coverage)

latest_token(h) == h.tokens[Len(h.tokens)]

\* self.tokens[1:-1]
Interior(tokens) ==
  IF Len(tokens) <= 2 THEN <<>> ELSE SubSeq(tokens, 2, Len(tokens) - 1)

RECURSIVE AnyBelow(_, _)
AnyBelow(s, limit) ==
  IF s = <<>> THEN FALSE
  ELSE IF Head(s) < limit THEN TRUE
  ELSE AnyBelow(Tail(s), limit)

\* A variant without the exemption of a final stop token.
HasUnknownTokenNoExemption(h, stop_id) ==
  AnyBelow(Tail(h.tokens), N_FREE_TOKENS)

has_unknown_token(h, stop_id) ==
  IF AnyBelow(Interior(h.tokens), N_FREE_TOKENS) THEN TRUE
  ELSE IF latest_token(h) < N_FREE_TOKENS /\ latest_token(h) # stop_id THEN TRUE
  ELSE FALSE

avg_log_prob(h, stop_id) ==
  IF has_unknown_token(h, stop_id) THEN SENTINEL
  ELSE Num(0, SumSeq(h.log_probs), Len(h.tokens))


(***************************************************************************)
(* _smart_avg_log_prob                                                     *)
(***************************************************************************)
\* 1. / (d + 5) as the float32 array stores it, in units of 2^-28, for the
\* distances d = j - i of the window.
Weights == AsSeq([d \in 1..(WINDOW_END - 1) |-> Div32(1, d + 5, 28)])

\* 1. / (j - i + 5)
Weight(i, j) == Weights[j - i]

\* The inner loop at position i (1-based): every j of the window that holds
\* no stopword gets the weight of its distance to i, overwriting what it had.
WindowWrite(tokens, w, i) ==
  AsSeq([j \in 1..Len(tokens) |->
     IF /\ j >= i + 1
        /\ j < Min2(Len(tokens) + 1, i + WINDOW_END)
        /\ tokens[j] \notin stopword_ids
     THEN Weight(i, j)
     ELSE w[j]])

\* The loop over enumerate(self.tokens), from position i on: the weights.
RECURSIVE SentenceStartWeights(_, _, _, _)
SentenceStartWeights(tokens, starts, w, i) ==
  IF i > Len(tokens) THEN w
  ELSE SentenceStartWeights(tokens, starts,
         IF tokens[i] \in starts THEN WindowWrite(tokens, w, i) ELSE w,
         i + 1)

\* The same loop: log_probs[i] -= .8 at every pronoun.
PenalisedLogProbs(h, pronouns) ==
  AsSeq([i \in 1..Len(h.log_probs) |->
     IF i <= Len(h.tokens) /\ h.tokens[i] \in pronouns
     THEN h.log_probs[i] - PRONOUN_PENALTY
     ELSE h.log_probs[i]])

\* sentence_start_weights /= sentence_start_weights.sum(): float32 divisions,
\* the quotients in units of 2^-30.  The sum ws is not 0.
Normalised(w, ws) ==
  AsSeq([i \in 1..Len(w) |-> IF w[i] = 0 THEN 0 ELSE Div32(w[i], ws, 30)])

\* acc + v for an accumulator hi * 2^30 + lo and 0 <= v < 2^30.
AddLo(acc, v) ==
  [hi |-> acc.hi + (acc.lo + v) \div 2^30, lo |-> (acc.lo + v) % 2^30]

\* acc + q * k for 0 <= q <= 2^30 and 0 <= k < 2^15, q taken in two halves.
AddProduct(acc, q, k) ==
  LET t == (q \div 2^15) * k
      a == AddLo(acc, (t % 2^15) * 2^15)
      b == AddLo(a, (q % 2^15) * k)
  IN  [hi |-> b.hi + t \div 2^15, lo |-> b.lo]

\* -(w[i] * x[i] + w[i+1] * x[i+1] + ...) added to acc, no x being positive.
RECURSIVE NegDot(_, _, _, _)
NegDot(w, x, i, acc) ==
  IF i > Len(w) THEN acc
  ELSE NegDot(w, x, i + 1,
              IF w[i] = 0 THEN acc ELSE AddProduct(acc, w[i], -x[i]))

Dot(w, x) == NegDot(w, x, 1, [hi |-> 0, lo |-> 0])

\* .75 * log_probs.mean() + .25 * d, d being minus the dot product.
Mix(lp, d) == NumDot(0, 3 * SumSeq(lp), 4 * Len(lp), d.hi, d.lo)

\* The two statements after the loop, ws being the sum of the weights w:
\* 0/0 makes every weight NaN and the result NaN.
WeightedAverage(w, lp, ws) ==
  IF ws = 0 THEN NaN ELSE Mix(lp, Dot(Normalised(w, ws), lp))

SmartAverage(w, lp) == WeightedAverage(w, lp, Sum32(w))

smart_avg_log_prob(h, starts, stopwords, pronouns) ==
  SmartAverage(SentenceStartWeights(h.tokens, starts,
                                    AsSeq([j \in 1..Len(h.tokens) |-> 0]), 1),
               PenalisedLogProbs(h, pronouns))

(***************************************************************************)
(* repeated_n_gram_loss, cov_loss, score                                   *)
(***************************************************************************)
NGram(tokens, i) == SubSeq(tokens, i, i + DISALLOWED_N - 1)

\* The loop from n-gram i on, seen being the n-grams met so far: TRUE when
\* one of them comes again (the loss is then 10. ** 6, and 0. otherwise).
RECURSIVE RepeatsFrom(_, _, _)
RepeatsFrom(tokens, i, seen) ==
  IF i > Len(tokens) - DISALLOWED_N + 1 THEN FALSE
  ELSE IF NGram(tokens, i) \in seen THEN TRUE
  ELSE RepeatsFrom(tokens, i + 1, seen \cup {NGram(tokens, i)})

repeated_n_gram_loss(h) == IF RepeatsFrom(h.tokens, 1, {}) THEN 1 ELSE 0

VecAdd(a, b) == AsSeq([k \in 1..Len(a) |-> a[k] + b[k]])
VecMin(a, b) == AsSeq([k \in 1..Len(a) |-> Min2(a[k], b[k])])

\* sum(covlosses) from attention distribution i on, in halves.
RECURSIVE CovLossSum(_, _, _)
CovLossSum(attn_dists, i, coverage) ==
  IF i > Len(attn_dists) THEN 0
  ELSE SumSeq(VecMin(attn_dists[i], coverage))
       + CovLossSum(attn_dists, i + 1, VecAdd(coverage, attn_dists[i]))

\* cov_loss as a fraction <<numerator, denominator>> in tenths; it needs
\* attn_dists[0], so the caller asks for it only when there is one.
cov_loss(h) ==
  <<5 * CovLossSum(h.attn_dists, 1, AsSeq([k \in 1..Len(h.attn_dists[1]) |-> 0])),
    Len(h.attn_dists)>>

\* avg_log_prob - self.repeated_n_gram_loss - self.cov_loss, for the average
\* s and the coverage loss c[1] / c[2].
Penalised(h, s, c) ==
  IF s.nan THEN NaN
  ELSE NumDot(repeated_n_gram_loss(h), s.num * c[2] - c[1] * s.den,
              s.den * c[2], s.hi, s.lo)

\* The outcome of h.score(...): "value" with the score, or "IndexError" from
\* cov_loss on a hypothesis that has no attention distribution.
score(h, stop_id, starts, stopwords, pronouns) ==
  IF has_unknown_token(h, stop_id) THEN [kind |-> "value", v |-> SENTINEL]
  ELSE IF Len(h.attn_dists) = 0 THEN [kind |-> "IndexError", v |-> NaN]
  ELSE [kind |-> "value",
        v |-> Penalised(h, smart_avg_log_prob(h, starts, stopwords, pronouns),
                        cov_loss(h))]

(***************************************************************************)
(* sorted(hyps, key=score_func, reverse=True): CPython's list sort on a    *)
(* list shorter than 64 elements is one run found by count_run, then a     *)
(* binary insertion sort of the rest; reverse=True reverses the list       *)
(* before and after.  Elements are <<key, hypothesis>> pairs compared by   *)
(* key with < alone.                                                       *)
(***************************************************************************)
KeyLess(x, y) == ScoreLess(x[1], y[1])

\* count_run: the length of the run s starts with, n being the length known
\* so far, and whether it is a strictly descending one.
RECURSIVE RunLength(_, _, _)
RunLength(s, n, descending) ==
  IF n >= Len(s) THEN n
  ELSE IF descending = KeyLess(s[n + 1], s[n]) THEN RunLength(s, n + 1, descending)
  ELSE n

\* The binary search of binarysort: where pivot goes in s[l .. r-1].
RECURSIVE InsertionPoint(_, _, _, _)
InsertionPoint(s, pivot, l, r) ==
  IF l >= r THEN l
  ELSE LET p == l + ((r - l) \div 2)
       IN  IF KeyLess(pivot, s[p]) THEN InsertionPoint(s, pivot, l, p)
           ELSE InsertionPoint(s, pivot, p + 1, r)

\* binarysort from position start on: s[1 .. start-1] is sorted.
RECURSIVE BinarySort(_, _)
BinarySort(s, start) ==
  IF start > Len(s) THEN s
  ELSE LET l == InsertionPoint(s, s[start], 1, start)
       IN  BinarySort(SubSeq(s, 1, l - 1) \o <<s[start]>> \o SubSeq(s, l, start - 1)
                        \o SubSeq(s, start + 1, Len(s)),
                      start + 1)

ListSort(s) ==
  IF Len(s) < 2 THEN s
  ELSE LET descending == KeyLess(s[2], s[1])
           n == RunLength(s, 2, descending)
           run == IF descending
                  THEN Reverse(SubSeq(s, 1, n)) \o SubSeq(s, n + 1, Len(s))
                  ELSE s
       IN  BinarySort(run, n + 1)

SortedReverse(keyed) == Reverse(ListSort(Reverse(keyed)))


(***************************************************************************)
(* State                                                                   *)
(*   FLAGS     beam_size, min_dec_steps, max_dec_steps, smart_decode       *)
(*   hyps, results, steps   the locals of run_beam_search                  *)
(*   pc        where run_beam_search is: "loop", "done" (returned best),   *)
(*             "IndexError" (hyps_sorted[0] on an empty list)              *)
(*   best      the hypothesis returned, <<>> before                        *)
(*   last      what the latest step's partition loop did                   *)
(*   all_hyps, ranked   the argument and the result of a sort_hyps call    *)
(*   heap, objs         list objects and Hypothesis objects by reference   *)
(***************************************************************************)
VARIABLES FLAGS, hyps, results, steps, pc, best, last, all_hyps, ranked, heap, objs

vars == <<FLAGS, hyps, results, steps, pc, best, last, all_hyps, ranked, heap, objs>>

(***************************************************************************)
(* sort_hyps                                                               *)
(***************************************************************************)
score_func(h, stop_id, starts, stopwords, pronouns) ==
  IF FLAGS.smart_decode
  THEN score(h, stop_id, starts, stopwords, pronouns)
  ELSE [kind |-> "value", v |-> avg_log_prob(h, stop_id)]

\* The key function raises on one of hs.
SortRaises(hs, stop_id, starts, stopwords, pronouns) ==
  \E i \in 1..Len(hs) :
     score_func(hs[i], stop_id, starts, stopwords, pronouns).kind # "value"

sort_hyps(hs, stop_id, starts, stopwords, pronouns) ==
  LET keyed  == AsSeq([i \in 1..Len(hs) |->
                   <<score_func(hs[i], stop_id, starts, stopwords, pronouns).v, hs[i]>>])
      sorted == SortedReverse(keyed)
  IN  AsSeq([i \in 1..Len(hs) |-> sorted[i][2]])


(***************************************************************************)
(* Bounds of the model                                                     *)
(***************************************************************************)
\* max_dec_steps ranges over 1..MaxDecSteps when the decoder answers freely.
MaxDecSteps == 2
\* Attention distributions are vectors of this length.
AttnLen == 2

BeamSizes == {1, 2}
\* Log-probabilities, in tenths.
LogProbs == {-10, 0}
\* The token ids the decoder proposes.
DecodeIds == {UNK_ID, PAD_ID, STOP_ID, THE_ID, WORD_ID}
WideIds == {UNK_ID, STOP_ID, THE_ID, WORD_ID}

OneHot(p) == AsSeq([k \in 1..AttnLen |-> IF k = p THEN 2 ELSE 0])
AttnDists == {OneHot(1), OneHot(AttnLen)}
ZeroVec == AsSeq([k \in 1..AttnLen |-> 0])

(***************************************************************************)
(* model.decode_onestep: for one hypothesis, the top 2 * beam_size token   *)
(* ids (distinct, by non-increasing log-probability), one attention        *)
(* distribution and one p_gen.  The new coverage is the previous one plus  *)
(* the attention distribution, the new state counts the decoder steps.     *)
(***************************************************************************)
IsTopK(row) ==
  /\ \A j, k \in 1..Len(row) : j # k => row[j][1] # row[k][1]
  /\ \A j \in 1..(Len(row) - 1) : row[j][2] >= row[j + 1][2]

TopKRows(ids, lps, width) ==
  {row \in [1..width -> ids \X lps] : IsTopK(row)}

DecodeRows(ids, lps, attns, width) ==
  {[topk |-> AsSeq(row), attn_dist |-> a, p_gen |-> 1] :
     row \in TopKRows(ids, lps, width), a \in attns}

(***************************************************************************)
(* The configurations explored and what the decoder may answer in each:    *)
(*   free   beam_size 1, max_dec_steps up to MaxDecSteps: any top-2 of     *)
(*          DecodeIds;                                                     *)
(*   wide   beam_size 2, max_dec_steps up to 2: any top-4 of WideIds, all  *)
(*          of log-probability 0;                                          *)
(*   long   beam_size 1, min_dec_steps 0, max_dec_steps LongDecSteps (long *)
(*          enough to collect 4 * beam_size results): any top-2 of         *)
(*          LongIds.                                                       *)
(* The decoder attends to the first input position in all of them.         *)
(***************************************************************************)
LongDecSteps == MaxDecSteps + 2
LongIds == {UNK_ID, STOP_ID, WORD_ID}

FreeMenu == DecodeRows(DecodeIds, LogProbs, {OneHot(1)}, 2)
WideMenu == DecodeRows(WideIds, {0}, {OneHot(1)}, 4)
LongMenu == DecodeRows(LongIds, LogProbs, {OneHot(1)}, 2)

Flags(b, mn, mx, sm) ==
  [beam_size |-> b, min_dec_steps |-> mn, max_dec_steps |-> mx, smart_decode |-> sm]

FreeConfigs ==
  {Flags(1, mn, mx, sm) : mn \in 0..MaxDecSteps, mx \in 1..MaxDecSteps, sm \in BOOLEAN}
WideConfigs ==
  {Flags(2, mn, mx, sm) : mn \in 0..2, mx \in 1..2, sm \in BOOLEAN}
LongConfigs ==
  {Flags(1, 0, LongDecSteps, sm) : sm \in BOOLEAN}

Configs ==
  {c \in FreeConfigs \cup WideConfigs \cup LongConfigs :
     c.beam_size \in BeamSizes /\ c.min_dec_steps <= c.max_dec_steps}

DecodeMenu(flags) ==
  IF flags.beam_size = 2 THEN WideMenu
  ELSE IF flags.max_dec_steps > MaxDecSteps THEN LongMenu
  ELSE FreeMenu

(***************************************************************************)
(* run_beam_search                                                         *)
(***************************************************************************)
RootHypothesis == Hypothesis(<<START_ID>>, <<0>>, 0, <<>>, <<>>, ZeroVec)

\* last: the children ranked by the latest step, how many of them the partition
\* loop examined, how many it discarded as stopping too early and as ending
\* in a reserved id; and, over the whole run, how many stop tokens the decoder
\* has proposed and how many children were discarded as stopping too early.
NoStep == [children |-> 0, examined |-> 0, short_stops |-> 0, unknowns |-> 0,
           stops_offered |-> 0, short_total |-> 0]

RECURSIVE CountStops(_)
CountStops(hs) ==
  IF hs = <<>> THEN 0
  ELSE (IF latest_token(Head(hs)) = stop_token_id THEN 1 ELSE 0) + CountStops(Tail(hs))

\* The children of hypothesis i, candidates j..2*beam_size.
RECURSIVE ExtendRow(_, _, _)
ExtendRow(h, out, j) ==
  IF j > 2 * FLAGS.beam_size THEN <<>>
  ELSE <<extend(h, out.topk[j][1], out.topk[j][2], steps + 1, out.attn_dist,
                out.p_gen, VecAdd(h.coverage, out.attn_dist))>>
       \o ExtendRow(h, out, j + 1)

\* all_hyps: the children of hypotheses i..num_orig_hyps.
RECURSIVE ExtendAll(_, _, _)
ExtendAll(outs, i, num_orig_hyps) ==
  IF i > num_orig_hyps THEN <<>>
  ELSE ExtendRow(hyps[i], outs[i], 1) \o ExtendAll(outs, i + 1, num_orig_hyps)

\* A variant that accepts a stop token one step later.
LongEnoughStrict == steps > FLAGS.min_dec_steps

\* A variant that accepts a stop token at any step.
LongEnoughAlways == TRUE

\* if steps >= FLAGS.min_dec_steps
LongEnough == steps >= FLAGS.min_dec_steps

\* A variant that keeps a child whatever its latest token.
IsKnownAlways(h) == TRUE

\* elif h.latest_token >= data.N_FREE_TOKENS
IsKnown(h) == latest_token(h) >= N_FREE_TOKENS

\* A variant that looks at results only.
BeamFullResultsOnly(hs, rs) == Len(rs) = 4 * FLAGS.beam_size

\* The condition of the break.
BeamFull(hs, rs) ==
  Len(hs) = FLAGS.beam_size \/ Len(rs) = 4 * FLAGS.beam_size

\* The loop over the ranked children from the k-th on; hs and rs are hyps and
\* results so far, st counts what was examined.
RECURSIVE Partition(_, _, _, _, _)
Partition(sorted, k, hs, rs, st) ==
  IF k > Len(sorted) THEN [hyps |-> hs, results |-> rs, st |-> st]
  ELSE
    LET h == sorted[k]
        is_stop == latest_token(h) = stop_token_id
        long_enough == LongEnough
        is_known == IsKnown(h)
        rs2 == IF is_stop /\ long_enough THEN rs \o <<h>> ELSE rs
        hs2 == IF ~is_stop /\ is_known THEN hs \o <<h>> ELSE hs
        st2 == [st EXCEPT !.examined = k,
                          !.short_stops = @ + (IF is_stop /\ ~long_enough THEN 1 ELSE 0),
                          !.short_total = @ + (IF is_stop /\ ~long_enough THEN 1 ELSE 0),
                          !.unknowns = @ + (IF ~is_stop /\ ~is_known THEN 1 ELSE 0)]
    IN  IF BeamFull(hs2, rs2)
        THEN [hyps |-> hs2, results |-> rs2, st |-> st2]
        ELSE Partition(sorted, k + 1, hs2, rs2, st2)

LoopCondition ==
  steps < FLAGS.max_dec_steps /\ Len(results) < 4 * FLAGS.beam_size

\* One iteration of the while loop, the decoder answering with outs.
StepWith(outs, num_orig_hyps) ==
  LET children == ExtendAll(outs, 1, num_orig_hyps)
      sorted == sort_hyps(children, stop_token_id, start_sent_ids, stopword_ids, pronoun_ids)
      part == Partition(sorted, 1, <<>>, results,
                        [NoStep EXCEPT !.children = Len(children),
                                       !.short_total = last.short_total,
                                       !.stops_offered = last.stops_offered
                                                           + CountStops(children)])
  IN  /\ hyps' = part.hyps
      /\ results' = part.results
      /\ last' = part.st
      /\ steps' = steps + 1
      /\ UNCHANGED <<FLAGS, pc, best, all_hyps, ranked, heap, objs>>

NumOrigHyps == IF steps = 0 THEN 1 ELSE Len(hyps)

Step ==
  /\ pc = "loop"
  /\ LoopCondition
  /\ \E outs \in [1..NumOrigHyps -> DecodeMenu(FLAGS)] :
        StepWith(outs, NumOrigHyps)

\* After the loop: the fallback to the live hypotheses, the final ranking and
\* hyps_sorted[0].
Finish ==
  /\ pc = "loop"
  /\ ~LoopCondition
  /\ LET final == IF Len(results) = 0 THEN hyps ELSE results
         hyps_sorted == sort_hyps(final, stop_token_id, start_sent_ids,
                                  stopword_ids, pronoun_ids)
     IN  /\ results' = final
         /\ IF Len(hyps_sorted) = 0
            THEN pc' = "IndexError" /\ best' = best
            ELSE pc' = "done" /\ best' = hyps_sorted[1]
  /\ UNCHANGED <<FLAGS, hyps, steps, last, all_hyps, ranked, heap, objs>>

Init ==
  /\ FLAGS \in Configs
  /\ hyps = AsSeq([i \in 1..FLAGS.beam_size |-> RootHypothesis])
  /\ results = <<>>
  /\ steps = 0
  /\ pc = "loop"
  /\ best = <<>>
  /\ last = NoStep
  /\ all_hyps = <<>>
  /\ ranked = <<>>
  /\ heap = <<>>
  /\ objs = <<>>

Next == Step \/ Finish

Spec == Init /\ [][Next]_vars


(***************************************************************************)
(* run_beam_search with beam_size=1, min_dec_steps=2, max_dec_steps=10 and *)
(* a decoder that ranks the stop token first at every step from            *)
(* min_dec_steps on and never before.  It proposes any top-2 of StubIds;   *)
(* the log-probability of the stop token varies from step to step, that of *)
(* WORD_ID is always the highest of LogProbs and that of the other ids the *)
(* lowest.                                                                 *)
(***************************************************************************)
StubConfigs == {Flags(1, 2, 10, sm) : sm \in BOOLEAN}

StubIds == {UNK_ID, STOP_ID, THE_ID, WORD_ID}

Likely == CHOOSE lp \in LogProbs : \A x \in LogProbs : x <= lp
Unlikely == CHOOSE lp \in LogProbs : \A x \in LogProbs : lp <= x

StubLogProbs(id) ==
  IF id = stop_token_id THEN LogProbs
  ELSE IF id = WORD_ID THEN {Likely}
  ELSE {Unlikely}

StubRows ==
  {out \in DecodeRows(StubIds, LogProbs, {OneHot(1)}, 2) :
     \A j \in 1..2 : out.topk[j][2] \in StubLogProbs(out.topk[j][1])}

StubMenu ==
  {out \in StubRows :
     (out.topk[1][1] = stop_token_id) <=> (steps >= FLAGS.min_dec_steps)}

StubStep ==
  /\ pc = "loop"
  /\ LoopCondition
  /\ \E outs \in [1..NumOrigHyps -> StubMenu] : StepWith(outs, NumOrigHyps)

InitStub ==
  /\ FLAGS \in StubConfigs
  /\ hyps = AsSeq([i \in 1..FLAGS.beam_size |-> RootHypothesis])
  /\ results = <<>>
  /\ steps = 0
  /\ pc = "loop"
  /\ best = <<>>
  /\ last = NoStep
  /\ all_hyps = <<>>
  /\ ranked = <<>>
  /\ heap = <<>>
  /\ objs = <<>>

NextStub == StubStep \/ Finish

SpecStub == InitStub /\ [][NextStub]_vars

(***************************************************************************)
(* sort_hyps on its own: all_hyps is the list given, ranked the list       *)
(* returned.  The lists are one hypothesis of up to MaxHypLen tokens, two  *)
(* of up to 3 tokens or of one repeated token, or three of up to 2 tokens; *)
(* a hypothesis has one log-probability for all its tokens after the start *)
(* token, one attention distribution for all its steps, and its place in   *)
(* the list as its decoder state.                                          *)
(***************************************************************************)
MaxHypLen == 5

ScoreIds == {UNK_ID, STOP_ID, PERIOD_ID, THE_ID, HE_ID, WORD_ID}

Repeat(x, n) == AsSeq([i \in 1..n |-> x])

TokenSeqs(maxlen) == UNION {[1..n -> ScoreIds] : n \in 0..maxlen}
TokenRuns == {Repeat(t, n) : t \in ScoreIds, n \in 3..(MaxHypLen - 1)}

MakeHyp(toks, lp, a) ==
  Hypothesis(<<START_ID>> \o AsSeq(toks), <<0>> \o Repeat(lp, Len(toks)), 0,
             Repeat(a, Len(toks)), Repeat(1, Len(toks)),
             IF Len(toks) = 0 THEN ZeroVec ELSE Repeat(2 * Len(toks), 1) \o Repeat(0, AttnLen - 1))

LongPool == {MakeHyp(t, lp, a) : t \in TokenSeqs(MaxHypLen - 1), lp \in LogProbs, a \in AttnDists}
PairPool == {MakeHyp(t, lp, OneHot(1)) : t \in TokenSeqs(2) \cup TokenRuns, lp \in LogProbs}
TriplePool == {MakeHyp(t, lp, OneHot(1)) : t \in TokenSeqs(1), lp \in LogProbs}

Numbered(hs) == AsSeq([i \in 1..Len(hs) |-> [hs[i] EXCEPT !.state = i]])

ScoreInputs ==
  {Numbered(<<h>>) : h \in LongPool}
    \cup {Numbered(<<a, b>>) : a \in PairPool, b \in PairPool}
    \cup {Numbered(<<a, b, c>>) : a \in TriplePool, b \in TriplePool, c \in TriplePool}

InitScore ==
  /\ FLAGS \in {Flags(1, 0, 1, sm) : sm \in BOOLEAN}
  /\ all_hyps \in ScoreInputs
  /\ ranked = <<>>
  /\ pc = "unsorted"
  /\ hyps = <<>>
  /\ results = <<>>
  /\ steps = 0
  /\ best = <<>>
  /\ last = NoStep
  /\ heap = <<>>
  /\ objs = <<>>

\* ranked = sort_hyps(all_hyps, ...), or the IndexError its key function raises.
SortHyps ==
  /\ pc = "unsorted"
  /\ IF SortRaises(all_hyps, stop_token_id, start_sent_ids, stopword_ids, pronoun_ids)
     THEN pc' = "IndexError" /\ ranked' = ranked
     ELSE /\ pc' = "sorted"
          /\ ranked' = sort_hyps(all_hyps, stop_token_id, start_sent_ids,
                                 stopword_ids, pronoun_ids)
  /\ UNCHANGED <<FLAGS, hyps, results, steps, best, last, all_hyps, heap, objs>>

NextScore == SortHyps

SpecScore == InitScore /\ [][NextScore]_vars


(***************************************************************************)
(* Hypothesis objects by reference.  heap[a] is the content of the Python  *)
(* list at address a; a Hypothesis object holds the addresses of its       *)
(* tokens, log_probs, attn_dists and p_gens lists and the state and        *)
(* coverage it was given.  last records the latest extend call.            *)
(***************************************************************************)
\* At most this many Hypothesis objects are built.
MaxObjs == 4

HeapIds == {STOP_ID, WORD_ID}

\* [x] : a new list object.
NewList(h, content) == [heap |-> Append(h, content), ref |-> Len(h) + 1]

\* the in-place self.tokens.append(token) in the place of self.tokens + [token]
ListAppendInPlace(h, addr, x) ==
  [heap |-> [h EXCEPT ![addr] = Append(@, x)], ref |-> addr]

\* self.tokens + [token]: a new list, the operands untouched.
ListConcat(h, addr, x) == NewList(h, h[addr] \o <<x>>)

\* a child built without its p_gen
HeapExtendNoPGen(h, o, token, log_prob, state, attn_dist, p_gen, coverage) ==
  LET t == ListConcat(h, o.tokens, token)
      l == ListConcat(t.heap, o.log_probs, log_prob)
      a == ListConcat(l.heap, o.attn_dists, attn_dist)
  IN  [heap |-> a.heap,
       obj |-> Hypothesis(t.ref, l.ref, state, a.ref, o.p_gens, coverage)]

\* Hypothesis.extend on object o, in heap h: the heap after and the child.
HeapExtend(h, o, token, log_prob, state, attn_dist, p_gen, coverage) ==
  LET t == ListConcat(h, o.tokens, token)
      l == ListConcat(t.heap, o.log_probs, log_prob)
      a == ListConcat(l.heap, o.attn_dists, attn_dist)
      g == ListConcat(a.heap, o.p_gens, p_gen)
  IN  [heap |-> g.heap,
       obj |-> Hypothesis(t.ref, l.ref, state, a.ref, g.ref, coverage)]

\* The root hypotheses: each has lists of its own.
RECURSIVE Roots(_, _, _)
Roots(h, os, n) ==
  IF n = 0 THEN [heap |-> h, objs |-> os]
  ELSE LET t == NewList(h, <<START_ID>>)
           l == NewList(t.heap, <<0>>)
           a == NewList(l.heap, <<>>)
           g == NewList(a.heap, <<>>)
       IN  Roots(g.heap, Append(os, Hypothesis(t.ref, l.ref, 0, a.ref, g.ref, ZeroVec)), n - 1)

\* The hypothesis an object stands for.
Deref(h, o) ==
  Hypothesis(h[o.tokens], h[o.log_probs], o.state, h[o.attn_dists], h[o.p_gens], o.coverage)

InitHyp ==
  /\ FLAGS \in {Flags(b, 0, 1, FALSE) : b \in BeamSizes}
  /\ heap = Roots(<<>>, <<>>, FLAGS.beam_size).heap
  /\ objs = Roots(<<>>, <<>>, FLAGS.beam_size).objs
  /\ pc = "extend"
  /\ last = NoStep
  /\ hyps = <<>>
  /\ results = <<>>
  /\ steps = 0
  /\ best = <<>>
  /\ all_hyps = <<>>
  /\ ranked = <<>>

\* h.extend(...) on any hypothesis there is, with any arguments.
ExtendCall ==
  /\ pc = "extend"
  /\ Len(objs) < MaxObjs
  /\ \E i \in 1..Len(objs), token \in HeapIds, log_prob \in LogProbs, attn_dist \in AttnDists :
       LET state == Len(objs)
           coverage == VecAdd(objs[i].coverage, attn_dist)
           r == HeapExtend(heap, objs[i], token, log_prob, state, attn_dist, 1, coverage)
       IN  /\ heap' = r.heap
           /\ objs' = Append(objs, r.obj)
           /\ last' = [parent |-> i, token |-> token, log_prob |-> log_prob,
                       state |-> state, attn_dist |-> attn_dist, p_gen |-> 1,
                       coverage |-> coverage]
  /\ UNCHANGED <<FLAGS, hyps, results, steps, pc, best, all_hyps, ranked>>

NextHyp == ExtendCall

SpecHyp == InitHyp /\ [][NextHyp]_vars


(***************************************************************************)
(* Properties                                                              *)
(***************************************************************************)
Returned == pc = "done"
Ended == pc \in {"done", "IndexError"}

StartsAndStops(h) ==
  h.tokens[1] = START_ID /\ latest_token(h) = stop_token_id

\* C1 (as stated), under SpecStub: with beam_size=1, min_dec_steps=2,
\* max_dec_steps=10 and the stop token ranked first by the decoder from step
\* min_dec_steps on and never before, the hypothesis returned has exactly
\* min_dec_steps + 2 = 4 tokens, start token first and stop token last, and
\* nothing is added to results at step 0 or 1.
C1_ExactLength ==
  /\ Returned => Len(best.tokens) = FLAGS.min_dec_steps + 2 /\ StartsAndStops(best)
  /\ (pc = "loop" /\ steps <= FLAGS.min_dec_steps) => results = <<>>

\* C1 (amended), under SpecStub: nothing is added to results at step 0 or 1,
\* and every hypothesis added in the loop starts with the start token, ends
\* with the stop token and has at least min_dec_steps + 2 = 4 tokens.  With
\* the plain score the first hypothesis added has exactly 4 tokens, and the
\* hypothesis returned is one of the results, of 4 to 7 tokens: the loop goes
\* on until 4 * beam_size results are there and the best average wins.
C1_ResultsFromMinDecSteps ==
  /\ (pc = "loop" /\ steps <= FLAGS.min_dec_steps) => results = <<>>
  /\ pc = "loop" =>
       \A i \in 1..Len(results) :
          /\ StartsAndStops(results[i])
          /\ Len(results[i].tokens) >= FLAGS.min_dec_steps + 2
  /\ (~FLAGS.smart_decode /\ results # <<>>) =>
       Len(results[1].tokens) = FLAGS.min_dec_steps + 2
  /\ (~FLAGS.smart_decode /\ Returned) =>
       /\ \E i \in 1..Len(results) : best = results[i]
       /\ StartsAndStops(best)
       /\ Len(best.tokens) >= FLAGS.min_dec_steps + 2
       /\ Len(best.tokens) <= FLAGS.min_dec_steps + 1 + 4 * FLAGS.beam_size

\* C1 witness: with the plain score, the hypothesis returned is a longer one
\* than the first result.
C1_LongerWins ==
  /\ ~FLAGS.smart_decode
  /\ Returned
  /\ StartsAndStops(best)
  /\ Len(best.tokens) = FLAGS.min_dec_steps + 3
  /\ Len(results[1].tokens) = FLAGS.min_dec_steps + 2

\* C2 (as stated), under Spec: when the decoder never proposes the stop token,
\* results is empty at the end of the loop, the live hypotheses take its
\* place and the hypothesis returned has exactly max_dec_steps + 1 tokens.
C2_FallbackLength ==
  (Ended /\ last.stops_offered = 0) =>
     /\ Returned
     /\ results = hyps
     /\ Len(best.tokens) = FLAGS.max_dec_steps + 1

\* C3 (as stated), under Spec: in every reachable state every hypothesis in
\* results ends in the stop token and has at least min_dec_steps + 2 tokens.
C3_ResultsAlwaysStopped ==
  \A i \in 1..Len(results) :
     /\ latest_token(results[i]) = stop_token_id
     /\ Len(results[i].tokens) >= FLAGS.min_dec_steps + 2

\* C3 (amended), under Spec: until the fallback after the loop puts the live
\* hypotheses in the place of an empty results, every hypothesis in results
\* ends in the stop token and has at least min_dec_steps + 2 tokens; a child
\* that stops earlier joins neither results nor the live set, and no live
\* hypothesis ends in the stop token.
C3_ResultsStoppedInLoop ==
  /\ pc = "loop" =>
       \A i \in 1..Len(results) :
          /\ latest_token(results[i]) = stop_token_id
          /\ Len(results[i].tokens) >= FLAGS.min_dec_steps + 2
  /\ (pc = "loop" /\ steps >= 1) =>
       \A i \in 1..Len(hyps) : latest_token(hyps[i]) # stop_token_id
  /\ (Ended /\ results # hyps) =>
       \A i \in 1..Len(results) :
          /\ latest_token(results[i]) = stop_token_id
          /\ Len(results[i].tokens) >= FLAGS.min_dec_steps + 2

\* C3 witness: a step has discarded a child that stopped too early, and a
\* later step has put one in results.
C3_ShortStopDiscarded ==
  /\ pc = "loop"
  /\ FLAGS.min_dec_steps >= 1
  /\ last.short_total >= 1
  /\ Len(results) = 1
  /\ Len(results[1].tokens) = FLAGS.min_dec_steps + 2

\* The key sort_hyps ranks h by.
KeyOf(h) == score_func(h, stop_token_id, start_sent_ids, stopword_ids, pronoun_ids).v

Unknown(h) == has_unknown_token(h, stop_token_id)

\* C4 (as stated), under SpecScore: of two hypotheses ranked by sort_hyps, one
\* with an unknown token and one without, the one without scores strictly
\* more than -10^6 and comes first, in both scoring modes.
C4_ValidBeatsUnknown ==
  pc = "sorted" =>
     \A i, j \in 1..Len(ranked) :
        (Unknown(ranked[i]) /\ ~Unknown(ranked[j])) =>
           /\ ScoreLess(SENTINEL, KeyOf(ranked[j]))
           /\ j < i

\* C5 (as stated), under SpecScore: the smart score of a hypothesis whose
\* sentence-start weights sum to zero is never a NaN that sort_hyps ranks by;
\* the computation ends in an error.
C5_NoNaNRanked ==
  (FLAGS.smart_decode /\ pc = "sorted") =>
     \A i \in 1..Len(ranked) :
        ~Unknown(ranked[i]) =>
           ~smart_avg_log_prob(ranked[i], start_sent_ids, stopword_ids, pronoun_ids).nan

IsPermutation(a, b) ==
  /\ Len(a) = Len(b)
  /\ \E f \in [1..Len(a) -> 1..Len(a)] :
        /\ \A i, j \in 1..Len(a) : i # j => f[i] # f[j]
        /\ \A i \in 1..Len(a) : a[i] = b[f[i]]

\* C6 (as stated), under SpecScore: sort_hyps returns a permutation of its
\* input in which no hypothesis comes before one of greater score, and
\* hypotheses of equal score come in the order of the input (state numbers
\* the input); so the first one returned has a score no other exceeds and is
\* the earliest of those that equal it.
C6_StableDescending ==
  pc = "sorted" =>
     /\ IsPermutation(ranked, all_hyps)
     /\ \A i, j \in 1..Len(ranked) :
           i < j =>
             /\ ~ScoreLess(KeyOf(ranked[i]), KeyOf(ranked[j]))
             /\ ScoreEq(KeyOf(ranked[i]), KeyOf(ranked[j]))
                  => ranked[i].state < ranked[j].state
     /\ \A i \in 1..Len(all_hyps) :
           /\ ~ScoreLess(KeyOf(ranked[1]), KeyOf(all_hyps[i]))
           /\ ScoreEq(KeyOf(ranked[1]), KeyOf(all_hyps[i]))
                => ranked[1].state <= all_hyps[i].state

\* C7, under SpecHyp: every hypothesis there is, a root or the child of any
\* sequence of extend calls, has len(tokens) = len(log_probs)
\* = len(attn_dists) + 1 = len(p_gens) + 1.
C7_LengthsAgree ==
  \A i \in 1..Len(objs) :
     LET h == Deref(heap, objs[i])
     IN  /\ Len(h.tokens) = Len(h.log_probs)
         /\ Len(h.tokens) = Len(h.attn_dists) + 1
         /\ Len(h.tokens) = Len(h.p_gens) + 1

\* C7 witness: a hypothesis two extend calls away from a root.
C7_Grandchild ==
  \E i \in 1..Len(objs) : Len(Deref(heap, objs[i]).tokens) = 3

\* C8, under SpecHyp: an extend call changes no hypothesis there was, and
\* the child it returns holds the parent's sequences with the one element
\* given appended and the state and coverage given.
C8_ParentUnchanged ==
  [][ /\ \A i \in 1..Len(objs) : Deref(heap', objs'[i]) = Deref(heap, objs[i])
      /\ Len(objs') = Len(objs) + 1
      /\ LET parent == Deref(heap, objs[last'.parent])
             child == Deref(heap', objs'[Len(objs')])
         IN  /\ child.tokens = Append(parent.tokens, last'.token)
             /\ child.log_probs = Append(parent.log_probs, last'.log_prob)
             /\ child.attn_dists = Append(parent.attn_dists, last'.attn_dist)
             /\ child.p_gens = Append(parent.p_gens, last'.p_gen)
             /\ child.state = last'.state
             /\ child.coverage = last'.coverage ]_vars

\* C8 witness: two children have been built from one parent.
C8_TwoChildrenOfOneParent ==
  /\ Len(objs) = FLAGS.beam_size + 2
  /\ last.parent = 1
  /\ Len(Deref(heap, objs[Len(objs)]).tokens) = 2
  /\ Len(Deref(heap, objs[Len(objs) - 1]).tokens) = 2
  /\ Deref(heap, objs[Len(objs)]).tokens # Deref(heap, objs[Len(objs) - 1]).tokens

\* What C9 calls disqualifying: a token below the threshold at an interior
\* position, or a last token below it that is not the stop token.
Disqualified(tokens) ==
  \/ \E k \in 2..(Len(tokens) - 1) : tokens[k] < N_FREE_TOKENS
  \/ tokens[Len(tokens)] < N_FREE_TOKENS /\ tokens[Len(tokens)] # stop_token_id

\* C9, under SpecScore: avg_log_prob is -10^6 exactly for the disqualified
\* hypotheses, whatever their log-probabilities, and sum(log_probs) /
\* len(tokens) for the others; in plain mode that is the key they are ranked by.
C9_SentinelOrAverage ==
  \A i \in 1..Len(all_hyps) :
     LET h == all_hyps[i]
         v == avg_log_prob(h, stop_token_id)
     IN  /\ Disqualified(h.tokens) => v = SENTINEL
         /\ ~Disqualified(h.tokens) =>
              /\ v.big = 0
              /\ ~v.nan
              /\ v.num = SumSeq(h.log_probs)
              /\ v.den = Len(h.tokens)
         /\ (~FLAGS.smart_decode /\ pc = "sorted") => KeyOf(h) = v

\* C9 witness: ranked in plain mode, a hypothesis with an interior unknown
\* token and log-probabilities that are not 0 after one without.
C9_InteriorUnknownRanked ==
  /\ ~FLAGS.smart_decode
  /\ pc = "sorted"
  /\ Len(ranked) = 2
  /\ ~Disqualified(ranked[1].tokens)
  /\ ranked[1].state = 2
  /\ \E k \in 2..(Len(ranked[2].tokens) - 1) : ranked[2].tokens[k] < N_FREE_TOKENS
  /\ latest_token(ranked[2]) = stop_token_id
  /\ SumSeq(ranked[2].log_probs) < 0

\* C10, under Spec: after every step the live set holds at most beam_size
\* hypotheses and results at most 4 * beam_size; the partition loop leaves
\* ranked children unexamined only when one of the two is full, and what it
\* examined it kept or discarded.
C10_BeamBounds ==
  /\ Len(hyps) <= FLAGS.beam_size
  /\ Len(results) <= 4 * FLAGS.beam_size
  /\ last.examined <= last.children
  /\ (pc = "loop" /\ last.examined < last.children) =>
        (Len(hyps) = FLAGS.beam_size \/ Len(results) = 4 * FLAGS.beam_size)
  /\ (pc = "loop" /\ steps >= 1) =>
        Len(hyps) + last.short_stops + last.unknowns <= last.examined

\* C10 witness: results is full and the children ranked after the last result
\* were dropped, after a step that filled the live set.
C10_ResultsFull ==
  /\ pc = "loop"
  /\ Len(results) = 4 * FLAGS.beam_size
  /\ last.examined < last.children
  /\ Len(hyps) < FLAGS.beam_size

\* C11, under Spec: once a step has been completed, no live hypothesis ends
\* in the stop token or in a token below N_FREE_TOKENS; and a hypothesis that
\* ends in a token below N_FREE_TOKENS other than the stop token is never in
\* results either.
C11_LiveTokensKnown ==
  /\ steps >= 1 =>
       \A i \in 1..Len(hyps) :
          /\ latest_token(hyps[i]) # stop_token_id
          /\ latest_token(hyps[i]) >= N_FREE_TOKENS
  /\ \A i \in 1..Len(results) :
        \/ latest_token(results[i]) = stop_token_id
        \/ latest_token(results[i]) >= N_FREE_TOKENS

\* C11 witness: the latest step examined a child ending in a token below
\* N_FREE_TOKENS, discarded it and kept another one alive.
C11_UnknownChildDiscarded ==
  /\ pc = "loop"
  /\ steps >= 1
  /\ last.unknowns >= 1
  /\ Len(hyps) >= 1
  /\ results = <<>>

\* C12 (as stated), under Spec: the live set is never empty while results is
\* empty, so that the set ranked after the loop holds a hypothesis and
\* run_beam_search ends by returning one.
C12_AlwaysReturns ==
  /\ (pc = "loop" /\ results = <<>>) => hyps # <<>>
  /\ Ended => (Returned /\ results # <<>>)

====
